---- MODULE Spec2Model ----
(***************************************************************************)
(* dotty (src/src/main.rs): the synchronisation engine.  A world made of   *)
(* a file system, the persisted configuration and the mirror working copy, *)
(* and one dotty process at a time running add, remove, sync or schedule.  *)
(* Paths are sequences of characters, so that Path::with_extension,        *)
(* Path::join and str::contains are computed the way the code computes     *)
(* them.                                                                   *)
(***************************************************************************)
EXTENDS Naturals, Sequences, FiniteSets, TLC

VARIABLES
    fs,              \* the file system: path -> node
    cfgFile,         \* config.toml on disk: NoFile or a Config
    repo,            \* the mirror working copy (~/.dotty_repo) as git sees it
    config,          \* Dotty.config of the running process
    current_profile, \* Dotty.current_profile
    last_synced,     \* Dotty.last_synced
    clock,           \* SystemTime::now() of the running process (logical)
    pc,              \* where the running process is
    cmd,             \* the command line of the running process
    profile,         \* the local `profile` of sync
    todo,            \* tracked files the loop of sync has not visited yet
    cur,             \* the tracked file the loop of sync is at
    result,          \* how the last invocation or pass ended
    err,             \* the error it returned
    ticks,           \* ticks of the schedule loop so far
    edits,           \* changes the user made to the world so far
    runs,            \* invocations of dotty so far
    events,          \* watch: watched paths with an event waiting in the channel
    watched,         \* watch: the paths the watcher of the process watches
    mirror,          \* history: the furthest step sync_with_github reached
    snap,            \* history: the file system and last_synced at sync's entry
    before,          \* history: the file system when the loop reached `cur`
    steps,           \* history: the steps of the current pass, in order
    prevPass         \* history: profile of the pass deployed just before, if any

vars == <<fs, cfgFile, repo, config, current_profile, last_synced, clock, pc, cmd,
          profile, todo, cur, result, err, ticks, edits, mirror, snap, before, steps,
          prevPass, runs, events, watched>>

\* ------------------------------------------------------------------ bounds

\* Tracked files a hand-written or grown profile holds at most.
MaxFiles == 2
\* Ticks one schedule process runs before it is terminated from outside.
MaxTicks == 2
\* Changes the user makes to files between invocations.
MaxEdits == 1
\* Invocations of dotty, one after the other.
MaxRuns == 2
\* Sync passes one watch process runs.
MaxPasses == 3
\* Rules of a profile detection, and conditions of one rule.
MaxRules == 2
MaxConds == 2

\* ------------------------------------------------------------------- paths

Home == <<"/", "h">>
SrcDir == <<"/", "s">>
DottyRepo == <<".", "d", "o", "t", "t", "y", "_", "r", "e", "p", "o">>
Bak == <<"b", "a", "k">>

\* Home-relative keys of the model: a plain file, a file that already carries
\* the backup extension, and a dotfile whose name holds ".git".
KeyT == <<"a", ".", "t">>
KeyB == <<"a", ".", "b", "a", "k">>
KeyG == <<".", "g", "i", "t", "c">>
Keys == {KeyT, KeyB, KeyG}

\* Path::join for a relative second path.
Join(dir, rel) == dir \o <<"/">> \o rel

Max(S) == CHOOSE x \in S : \A y \in S : y <= x

\* Path::with_extension: the file name is what follows the last "/", its
\* extension what follows its last "." unless that "." opens the name.
with_extension(p, ext) ==
    LET slashes == {i \in 1..Len(p) : p[i] = "/"}
        base == IF slashes = {} THEN 0 ELSE Max(slashes)
        dots == {i \in (base + 2)..Len(p) : p[i] = "."}
        stemEnd == IF dots = {} THEN Len(p) ELSE Max(dots) - 1
    IN  SubSeq(p, 1, stemEnd) \o <<".">> \o ext

\* str::contains
Contains(s, pat) ==
    \E i \in 0..(Len(s) - Len(pat)) : SubSeq(s, i + 1, i + Len(pat)) = pat

RepoPath == Join(Home, DottyRepo)
Dest(k) == Join(Home, k)
ExtSrc(k) == Join(SrcDir, k)
BackupPath(p) == with_extension(p, Bak)
RepoDest(k) == Join(RepoPath, k)

HomePaths == {Dest(k) : k \in Keys}
SrcPaths == {ExtSrc(k) : k \in Keys}
Paths == HomePaths \cup SrcPaths \cup {BackupPath(p) : p \in HomePaths}
            \cup {RepoDest(k) : k \in Keys}

\* ------------------------------------------------------------- file system

Absent == [t |-> "none"]
File(c) == [t |-> "file", c |-> c]
Link(p) == [t |-> "link", to |-> p]

\* File contents: two texts, the empty file, and bytes that are not UTF-8.
Texts == {"v0", "v1", "v2"}
Empty == ""
Binary == "bin"
IsUtf8(c) == c # Binary

\* The path a name resolves to, following symbolic links.
RECURSIVE Resolve(_, _, _)
Resolve(f, p, fuel) ==
    IF fuel = 0 \/ p \notin DOMAIN f \/ f[p].t # "link" THEN p
    ELSE Resolve(f, f[p].to, fuel - 1)

Target(f, p) == Resolve(f, p, Cardinality(Paths))

\* Path::exists: follows links; a dangling link does not exist.
Exists(f, p) == Target(f, p) \in DOMAIN f /\ f[Target(f, p)].t = "file"

\* What reading the file at p yields.
Content(f, p) == f[Target(f, p)].c

\* fs::copy(from, to): opens from, then opens to with create and truncate, then
\* copies; when both name the same file it is truncated before it is read.
Copy(f, from, to) ==
    LET src == Target(f, from)
        dst == Target(f, to)
    IN  IF src = dst THEN [f EXCEPT ![dst] = File(Empty)]
        ELSE [f EXCEPT ![dst] = File(f[src].c)]

\* std::os::unix::fs::symlink(source, dest): fails when anything, a dangling
\* link included, is at dest.
CanSymlink(f, dest) == f[dest].t = "none"

\* ------------------------------------------------------------------ config

GitPattern == <<".", "g", "i", "t">>
GitignorePattern == <<".", "g", "i", "t", "i", "g", "n", "o", "r", "e">>
DefaultPatterns == {GitPattern, GitignorePattern}
DefaultInterval == 300

NoFile == [kind |-> "nofile"]
NoDetection == [some |-> FALSE]

\* HashMap::new() for ProfileConfig.files
EmptyFiles == [k \in {} |-> <<>>]

ProfileConfig(files, patterns, symlinks) ==
    [files |-> files, ignore_patterns |-> patterns, use_symlinks |-> symlinks]

\* The configuration Dotty::new writes when config.toml is absent.
DefaultConfig ==
    [profiles |-> [n \in {"default"} |-> ProfileConfig(EmptyFiles, DefaultPatterns, FALSE)],
     remote |-> [github_repo |-> "", github_token |-> ""],
     sync_interval |-> DefaultInterval,
     profile_detection |-> NoDetection]

\* Config::validate
Validate(c) ==
    IF c.remote.github_repo = "" THEN FALSE
    ELSE IF c.remote.github_token = "" THEN FALSE
    ELSE IF c.sync_interval = 0 THEN FALSE
    ELSE TRUE

\* Configurations a user writes by hand: the remote is filled in, the default
\* profile tracks the files of F from canonical sources in a dotfiles
\* directory, and there may be a second profile "work" that tracks one file.
HandConfig(F, symlinks, work) ==
    [profiles |->
        [n \in (IF work THEN {"default", "work"} ELSE {"default"}) |->
            IF n = "default"
            THEN ProfileConfig([k \in F |-> ExtSrc(k)], DefaultPatterns, symlinks)
            ELSE ProfileConfig([k \in {KeyT} |-> ExtSrc(k)], DefaultPatterns, FALSE)],
     remote |-> [github_repo |-> "url", github_token |-> "tok"],
     sync_interval |-> DefaultInterval,
     profile_detection |-> NoDetection]

HandConfigs ==
    {HandConfig(F, s, FALSE) : F \in {G \in SUBSET Keys : Cardinality(G) <= MaxFiles},
                               s \in BOOLEAN}

\* Host signals of the machine dotty runs on.
HostSignals == [hostname |-> "box", os |-> "linux", env |-> [n \in {"DOTTY"} |-> "1"]]

\* Dotty::check_condition
check_condition(cond, sig) ==
    CASE cond.kind = "Hostname" -> cond.value = sig.hostname
      [] cond.kind = "OS" -> cond.value = sig.os
      [] cond.kind = "EnvVar" ->
            IF cond.name \in DOMAIN sig.env THEN sig.env[cond.name] = cond.value
            ELSE FALSE

\* Mutant of detect_profile: the last matching rule wins.
detect_profile_last(c, sig) ==
    IF c.profile_detection.some
    THEN LET rules == c.profile_detection.rules
             hits == {i \in 1..Len(rules) :
                        \A j \in 1..Len(rules[i].conditions) :
                            check_condition(rules[i].conditions[j], sig)}
         IN  IF hits = {} THEN "default"
             ELSE rules[CHOOSE i \in hits : \A j \in hits : i >= j].profile
    ELSE "default"

\* Dotty::detect_profile: the first rule all of whose conditions hold.
detect_profile(c, sig) ==
    IF c.profile_detection.some
    THEN LET rules == c.profile_detection.rules
             hits == {i \in 1..Len(rules) :
                        \A j \in 1..Len(rules[i].conditions) :
                            check_condition(rules[i].conditions[j], sig)}
         IN  IF hits = {} THEN "default"
             ELSE rules[CHOOSE i \in hits : \A j \in hits : i <= j].profile
    ELSE "default"

\* Dotty::new: the configuration it ends with and what it leaves on disk.
\* A present file is read, parsed and validated; an absent one is replaced by
\* the default configuration, which is written and used without validation.
NewDotty(file) ==
    IF file # NoFile
    THEN [ok |-> Validate(file), config |-> file, file |-> file]
    ELSE [ok |-> TRUE, config |-> DefaultConfig, file |-> DefaultConfig]

\* Path::canonicalize and strip_prefix(home)
Canonical(f, p) == Target(f, p)
UnderHome(p) ==
    /\ Len(p) > Len(Home) + 1
    /\ SubSeq(p, 1, Len(Home) + 1) = Home \o <<"/">>
StripHome(p) == SubSeq(p, Len(Home) + 2, Len(p))

\* Dotty::should_sync on a file: the walker yields the file itself, and the
\* file is ineligible when its path contains an ignore pattern.
should_sync(source, pc_) ==
    ~ \E pat \in pc_.ignore_patterns : Contains(source, pat)

\* ------------------------------------------------------------ command line

None == [some |-> FALSE]
Some(v) == [some |-> TRUE, v |-> v]
ProfileArgs == {None, Some("work")}

\* Option::unwrap_or_else(|| self.current_profile.clone())
ProfileOf(arg, current) == IF arg.some THEN arg.v ELSE current

Commands ==
    [op : {"add", "remove"}, path : HomePaths, profile : ProfileArgs]
        \cup [op : {"sync", "schedule"}, profile : ProfileArgs]

\* ---------------------------------------------------------------- history

NoMirror == "none"
NoSnap == [taken |-> FALSE]
NoKey == <<>>
NoPass == [deployed |-> FALSE]

\* ------------------------------------------------------------------- Init

\* The state of a process that has not started.
NotStarted ==
    /\ config = NoFile
    /\ current_profile = ""
    /\ last_synced = 0
    /\ clock = 0
    /\ pc = "idle"
    /\ cmd = [op |-> "none"]
    /\ profile = ""
    /\ todo = {}
    /\ cur = NoKey
    /\ result = "none"
    /\ err = "none"
    /\ ticks = 0
    /\ edits = 0
    /\ runs = 0
    /\ events = {}
    /\ watched = {}
    /\ mirror = NoMirror
    /\ snap = NoSnap
    /\ before = NoSnap
    /\ steps = <<>>
    /\ prevPass = NoPass

\* What a canonical source holds unless the user changed it.
Original(k) == IF k = KeyB THEN File("v2") ELSE File("v1")

\* A hand-written configuration, each destination present or not, and at
\* most one canonical source missing or binary; no working copy yet.
Init ==
    /\ \E present \in SUBSET Keys, odd \in SUBSET Keys, node \in {Absent, File(Binary)} :
          /\ Cardinality(odd) <= 1
          /\ fs = [p \in Paths |->
                    IF \E k \in odd : p = ExtSrc(k) THEN node
                    ELSE IF \E k \in Keys : p = ExtSrc(k)
                        THEN Original(CHOOSE k \in Keys : p = ExtSrc(k))
                    ELSE IF \E k \in present : p = Dest(k) THEN File("v0")
                    ELSE Absent]
    /\ cfgFile \in HandConfigs
    /\ repo = [exists |-> FALSE, hasHead |-> FALSE, ahead |-> FALSE]
    /\ NotStarted

\* ------------------------------------------------------------ environment

EditContents == {"v2", Binary}

\* The channel after a write to the paths of `written`: the watcher sends an
\* event for each of them that it watches, and events on one path coalesce.
Notify(written) == events \cup (written \cap watched)

\* The user rewrites or deletes a canonical source or a file of the home
\* directory while no pass runs.
UserEdit(p, node) ==
    /\ pc \in {"idle", "sched", "recv"}
    /\ edits < MaxEdits
    /\ fs[p] # node
    /\ fs' = [fs EXCEPT ![p] = node]
    /\ events' = Notify({p})
    /\ edits' = edits + 1
    /\ prevPass' = NoPass
    /\ UNCHANGED <<runs, watched, cfgFile, repo, config, current_profile, last_synced, clock, pc,
                   cmd, profile, todo, cur, result, err, ticks, mirror, snap, before,
                   steps>>

\* --------------------------------------------------------------- main, new

\* The cap on the size of a profile: an add that would grow it past MaxFiles
\* is not issued.
AddFits(c) ==
    LET loaded == NewDotty(cfgFile).config
        prof == ProfileOf(c.profile, detect_profile(loaded, HostSignals))
    IN  IF prof \notin DOMAIN loaded.profiles THEN TRUE
        ELSE IF ~ Exists(fs, c.path) THEN TRUE
        ELSE IF ~ UnderHome(Canonical(fs, c.path)) THEN TRUE
        ELSE Cardinality(DOMAIN loaded.profiles[prof].files
                            \cup {StripHome(Canonical(fs, c.path))}) <= MaxFiles

\* main: Args::parse, Dotty::new()?, then the dispatch on the subcommand.
Main(c) ==
    /\ pc = "idle"
    /\ runs < MaxRuns
    /\ runs' = runs + 1
    /\ events' = {}
    /\ watched' = {}
    /\ IF c.op = "add" THEN AddFits(c) ELSE TRUE
    /\ LET new == NewDotty(cfgFile)
       IN  /\ cfgFile' = new.file
           /\ IF new.ok
              THEN /\ config' = new.config
                   /\ current_profile' = detect_profile(new.config, HostSignals)
                   /\ pc' = c.op
                   /\ result' = "none"
                   /\ err' = "none"
              ELSE /\ config' = NoFile
                   /\ current_profile' = ""
                   /\ pc' = "idle"
                   /\ result' = "aborted"
                   /\ err' = "ConfigInvalid"
    /\ cmd' = c
    /\ last_synced' = 0
    /\ clock' = 0
    /\ profile' = ""
    /\ todo' = {}
    /\ cur' = NoKey
    /\ ticks' = 0
    /\ mirror' = NoMirror
    /\ snap' = NoSnap
    /\ before' = NoSnap
    /\ steps' = <<>>
    /\ UNCHANGED <<fs, repo, edits, prevPass>>

\* ------------------------------------------------------------ add, remove

\* Dotty::save_config
save_config(c) == c

\* The error add_file and remove_file return before they touch the mapping.
PathError(c, f, path, prof) ==
    IF prof \notin DOMAIN c.profiles THEN "ProfileNotFound"
    ELSE IF ~ Exists(f, path) THEN "PathUnresolvable"
    ELSE IF ~ UnderHome(Canonical(f, path)) THEN "PathOutsideHome"
    ELSE "none"

Insert(files, k, v) == [x \in DOMAIN files \cup {k} |-> IF x = k THEN v ELSE files[x]]
\* Mutant of Remove: the key stays in the mapping.
RemoveKeeps(files, k) == files
Remove(files, k) == [x \in DOMAIN files \ {k} |-> files[x]]

\* Dotty::add_file
AddFile ==
    /\ pc = "add"
    /\ LET prof == ProfileOf(cmd.profile, current_profile)
           e == PathError(config, fs, cmd.path, prof)
           canonical_path == Canonical(fs, cmd.path)
           relative_path == StripHome(canonical_path)
       IN  IF e # "none"
           THEN /\ result' = "aborted"
                /\ err' = e
                /\ UNCHANGED <<config, cfgFile>>
           ELSE /\ config' = [config EXCEPT !.profiles[prof].files =
                                Insert(@, relative_path, canonical_path)]
                /\ cfgFile' = save_config(config')
                /\ result' = "ok"
                /\ err' = "none"
    /\ pc' = "idle"
    /\ prevPass' = NoPass
    /\ UNCHANGED <<runs, events, watched, fs, repo, current_profile, last_synced, clock, cmd, profile, todo,
                   cur, ticks, edits, mirror, snap, before, steps>>

\* Dotty::remove_file
RemoveFile ==
    /\ pc = "remove"
    /\ LET prof == ProfileOf(cmd.profile, current_profile)
           e == PathError(config, fs, cmd.path, prof)
           canonical_path == Canonical(fs, cmd.path)
           relative_path == StripHome(canonical_path)
       IN  IF e # "none"
           THEN /\ result' = "aborted"
                /\ err' = e
                /\ UNCHANGED <<config, cfgFile>>
           ELSE IF relative_path \in DOMAIN config.profiles[prof].files
           THEN /\ config' = [config EXCEPT !.profiles[prof].files =
                                Remove(@, relative_path)]
                /\ cfgFile' = save_config(config')
                /\ result' = "ok"
                /\ err' = "none"
           ELSE /\ result' = "ok_not_found"
                /\ err' = "none"
                /\ UNCHANGED <<config, cfgFile>>
    /\ pc' = "idle"
    /\ prevPass' = NoPass
    /\ UNCHANGED <<runs, events, watched, fs, repo, current_profile, last_synced, clock, cmd, profile, todo,
                   cur, ticks, edits, mirror, snap, before, steps>>

\* -------------------------------------------------------------------- sync

\* Mutant of AfterPass: only the schedule loop survives a pass.
AfterPassStops == IF cmd.op = "schedule" THEN "sched" ELSE "idle"

\* Where control goes when a pass returns: the schedule job and the watch loop
\* log the error and go back to waiting, a manual sync ends the process.
AfterPass ==
    IF cmd.op = "schedule" THEN "sched"
    ELSE IF cmd.op = "watch" THEN "recv"
    ELSE "idle"

Files == config.profiles[profile].files
Source(k) == Files[k]
UsesSymlinks == config.profiles[profile].use_symlinks

\* sync, lines 250-255: the profile is resolved and looked up.
SyncStart ==
    /\ pc = "sync"
    /\ profile' = ProfileOf(cmd.profile, current_profile)
    /\ clock' = clock + 1
    /\ steps' = <<>>
    /\ mirror' = NoMirror
    /\ cur' = NoKey
    /\ before' = NoSnap
    /\ snap' = [taken |-> TRUE, fs |-> fs, last_synced |-> last_synced,
                second |-> (prevPass = [deployed |-> TRUE, profile |-> profile']),
                prior |-> result]
    /\ prevPass' = NoPass
    /\ IF profile' \in DOMAIN config.profiles
       THEN /\ pc' = "diff"
            /\ todo' = DOMAIN config.profiles[profile'].files
            /\ result' = "none"
            /\ err' = "none"
       ELSE /\ pc' = AfterPass
            /\ todo' = {}
            /\ result' = "aborted"
            /\ err' = "ProfileNotFound"
    /\ UNCHANGED <<runs, events, watched, fs, cfgFile, repo, config, current_profile, last_synced, cmd, ticks,
                   edits>>

\* The tracked files show_diff reads: source and destination both exist.
Diffed == {k \in DOMAIN Files : Exists(fs, Source(k)) /\ Exists(fs, Dest(k))}

\* fs::read_to_string fails on bytes that are not UTF-8.
Readable(f, p) == IsUtf8(Content(f, p))

\* Dotty::show_diff, called with `?` from sync: a failed read returns the error.
show_diff_ok == \A k \in Diffed : Readable(fs, Source(k)) /\ Readable(fs, Dest(k))

ShowDiff ==
    /\ pc = "diff"
    /\ IF show_diff_ok
       THEN /\ pc' = "files"
            /\ steps' = Append(steps, <<"diff">>)
            /\ UNCHANGED <<result, err>>
       ELSE /\ pc' = AfterPass
            /\ result' = "aborted"
            /\ err' = "IOFailure"
            /\ UNCHANGED steps
    /\ UNCHANGED <<runs, events, watched, fs, cfgFile, repo, config, current_profile, last_synced, clock, cmd,
                   profile, todo, cur, ticks, edits, mirror, snap, before, prevPass>>

\* The node backup_file would save: what is at the destination, if it exists.
NodeAt(f, p) == IF Exists(f, p) THEN File(Content(f, p)) ELSE Absent

\* Mutant of Eligible: the existence of the source is not checked.
EligibleUnchecked(k) == should_sync(Source(k), config.profiles[profile])

\* sync, lines 259-266 and 276-281: the loop reaches a tracked file; a missing
\* source is a warning, an ignored one a note, and the loop goes on.
Eligible(k) == Exists(fs, Source(k)) /\ should_sync(Source(k), config.profiles[profile])

PickFile(k) ==
    /\ pc = "files"
    /\ k \in todo
    /\ IF Eligible(k)
       THEN /\ pc' = "backup"
            /\ cur' = k
            /\ before' = [taken |-> TRUE, fs |-> fs]
            /\ UNCHANGED <<todo, steps>>
       ELSE /\ todo' = todo \ {k}
            /\ steps' = Append(steps, <<"skip", k>>)
            /\ UNCHANGED <<pc, cur, before>>
    /\ UNCHANGED <<runs, events, watched, fs, cfgFile, repo, config, current_profile, last_synced, clock, cmd,
                   profile, result, err, ticks, edits, mirror, snap, prevPass>>

\* Dotty::backup_file: the file system it leaves.
backup_file(f, path) ==
    IF Exists(f, path) THEN Copy(f, path, BackupPath(path)) ELSE f

\* sync, line 267.  io_fails: fs::copy returns an error.
BackupFile(io_fails) ==
    /\ pc = "backup"
    /\ io_fails => Exists(fs, Dest(cur))
    /\ events' = IF io_fails \/ ~ Exists(fs, Dest(cur)) THEN events
                 ELSE Notify({Target(fs, BackupPath(Dest(cur)))})
    /\ IF io_fails
       THEN /\ pc' = AfterPass
            /\ result' = "aborted"
            /\ err' = "IOFailure"
            /\ UNCHANGED <<fs, steps>>
       ELSE /\ pc' = "deploy"
            /\ fs' = backup_file(fs, Dest(cur))
            /\ steps' = IF Exists(fs, Dest(cur))
                        THEN Append(steps, <<"backup", cur>>) ELSE steps
            /\ UNCHANGED <<result, err>>
    /\ UNCHANGED <<runs, watched, cfgFile, repo, config, current_profile, last_synced, clock, cmd,
                   profile, todo, cur, ticks, edits, mirror, snap, before, prevPass>>

\* symlink_file(source, dest): the file system it leaves when it succeeds.
symlink_file(f, source, dest) == [f EXCEPT ![dest] = Link(source)]

\* Mutant of Deploy: a failed deploy is noted and the loop goes on.
DeployGoesOn(failure) ==
    /\ pc = "deploy"
    /\ LET source == Source(cur)
           dest == Dest(cur)
           refused == UsesSymlinks /\ ~ CanSymlink(fs, dest)
       IN  /\ UsesSymlinks => failure # "perm"
           /\ refused => failure = "io"
           /\ fs' = IF failure = "io" THEN fs
                    ELSE IF UsesSymlinks THEN symlink_file(fs, source, dest)
                    ELSE Copy(fs, source, dest)
           /\ events' = IF failure = "io" \/ UsesSymlinks THEN events
                        ELSE Notify({Target(fs, dest)})
    /\ pc' = "files"
    /\ todo' = todo \ {cur}
    /\ steps' = IF failure = "none" THEN Append(steps, <<"deploy", cur>>) ELSE steps
    /\ IF failure = "none"
       THEN UNCHANGED <<result, err>>
       ELSE result' = "aborted" /\ err' = "IOFailure"
    /\ UNCHANGED <<runs, watched, cfgFile, repo, config, current_profile, last_synced, clock,
                   cmd, profile, cur, ticks, edits, mirror, snap, before, prevPass>>

\* sync, lines 268-275.  failure: "none", "io" (symlink_file or fs::copy
\* returns an error) or "perm" (sync_permissions does, after the copy).
\* symlink_file returns AlreadyExists whenever something is at the destination.
Deploy(failure) ==
    /\ pc = "deploy"
    /\ LET source == Source(cur)
           dest == Dest(cur)
           refused == UsesSymlinks /\ ~ CanSymlink(fs, dest)
       IN  /\ UsesSymlinks => failure # "perm"
           /\ refused => failure = "io"
           /\ fs' = IF failure = "io" THEN fs
                    ELSE IF UsesSymlinks THEN symlink_file(fs, source, dest)
                    ELSE Copy(fs, source, dest)
           /\ events' = IF failure = "io" \/ UsesSymlinks THEN events
                        ELSE Notify({Target(fs, dest)})
    /\ IF failure = "none"
       THEN /\ pc' = "files"
            /\ todo' = todo \ {cur}
            /\ steps' = Append(steps, <<"deploy", cur>>)
            /\ UNCHANGED <<result, err>>
       ELSE /\ pc' = AfterPass
            /\ result' = "aborted"
            /\ err' = IF UsesSymlinks /\ ~ CanSymlink(fs, Dest(cur))
                      THEN "AlreadyExists" ELSE "IOFailure"
            /\ UNCHANGED <<todo, steps>>
    /\ UNCHANGED <<runs, watched, cfgFile, repo, config, current_profile, last_synced, clock, cmd,
                   profile, cur, ticks, edits, mirror, snap, before, prevPass>>

\* --------------------------------------------------------- sync_with_github

\* The canonical sources, over all profiles, that the copy loop of
\* sync_with_github copies to the working copy under key k.
MirrorSources(k) ==
    {config.profiles[n].files[k] :
        n \in {m \in DOMAIN config.profiles :
                 /\ k \in DOMAIN config.profiles[m].files
                 /\ Exists(fs, config.profiles[m].files[k])}}

Copyable == {k \in Keys : MirrorSources(k) # {}}

\* The orders in which the outer loop may visit the profiles (HashMap::values).
ProfileOrders ==
    LET names == DOMAIN config.profiles
    IN  {o \in [1..Cardinality(names) -> names] : \A n \in names : \E i \in DOMAIN o : o[i] = n}

\* The source whose copy is the one left under key k when the profiles are
\* visited in `order`: the last profile that tracks k from an existing source.
Winner(order, k) ==
    LET at == {i \in DOMAIN order :
                 /\ k \in DOMAIN config.profiles[order[i]].files
                 /\ Exists(fs, config.profiles[order[i]].files[k])}
    IN  config.profiles[order[Max(at)]].files[k]

\* The working copy after the copy loop copied the keys of S.
CopiedToRepo(f, S, order) ==
    [p \in Paths |->
        IF \E k \in S : p = RepoDest(k)
        THEN File(Content(f, Winner(order, CHOOSE k \in S : p = RepoDest(k))))
        ELSE f[p]]

MirrorSteps == {"open", "clone", "copy", "stage", "commit", "push", "done"}

\* Mutant of MirrorReached: the commit does not need a parent.
MirrorReachedNoParent(failAt, head) ==
    LET first == IF repo.exists THEN "open" ELSE "clone"
    IN  IF failAt = "open" \/ (~ repo.exists /\ config.remote.github_repo = "")
        THEN first
        ELSE IF failAt = "copy" THEN "copy"
        ELSE IF failAt = "stage" THEN "stage"
        ELSE IF failAt = "push" THEN "push"
        ELSE "done"

\* The step sync_with_github stops at.  failAt names the step the
\* environment fails (the repository cannot be opened or cloned, a copy fails,
\* the index cannot be written, the push is refused), "none" if it fails
\* none; cloning an empty address fails, and so does a commit on a branch
\* that has no commit to be its parent.
MirrorReached(failAt, head) ==
    LET first == IF repo.exists THEN "open" ELSE "clone"
    IN  IF failAt = "open" \/ (~ repo.exists /\ config.remote.github_repo = "")
        THEN first
        ELSE IF failAt = "copy" THEN "copy"
        ELSE IF failAt = "stage" THEN "stage"
        ELSE IF ~ head THEN "commit"
        ELSE IF failAt = "push" THEN "push"
        ELSE "done"

\* Mutant of LoopDone: the mirror does not wait for the loop to end.
LoopDoneEarly == TRUE

\* The for loop of sync has visited every tracked file of the profile.
LoopDone == todo = {}

\* sync, line 284: sync_with_github()?.  head: whether the branch of the
\* working copy has a commit (for a clone, whether the remote has one).
Mirror(failAt, head, S, order) ==
    /\ pc = "files"
    /\ LoopDone
    /\ repo.exists => head = repo.hasHead
    /\ failAt = "copy" => S # Copyable
    /\ failAt # "copy" => S = Copyable
    /\ LET reached == MirrorReached(failAt, head)
       IN  /\ mirror' = reached
           /\ repo' = IF reached \in {"open", "clone"} THEN repo
                      ELSE [exists |-> TRUE, hasHead |-> head,
                            ahead |-> (repo.ahead \/ reached = "push")]
           /\ fs' = IF reached \in {"open", "clone"} THEN fs
                    ELSE CopiedToRepo(fs, S, order)
           /\ events' = IF reached \in {"open", "clone"} THEN events
                        ELSE Notify({Target(fs, RepoDest(k)) : k \in S})
           /\ IF reached = "done"
              THEN /\ pc' = "stamp"
                   /\ UNCHANGED <<result, err>>
              ELSE /\ pc' = AfterPass
                   /\ result' = "aborted"
                   /\ err' = IF reached = "copy" THEN "IOFailure" ELSE "RemoteFailure"
    /\ steps' = Append(steps, <<"mirror">>)
    /\ prevPass' = IF UsesSymlinks THEN NoPass
                   ELSE [deployed |-> TRUE, profile |-> profile]
    /\ UNCHANGED <<runs, watched, cfgFile, config, current_profile, last_synced, clock, cmd, profile,
                   todo, cur, ticks, edits, snap, before>>

\* Mutant of Stamp: the pass returns Ok without writing last_synced.
StampForgets ==
    /\ pc = "stamp"
    /\ result' = "completed"
    /\ err' = "none"
    /\ pc' = AfterPass
    /\ steps' = Append(steps, <<"stamp">>)
    /\ UNCHANGED <<runs, events, watched, fs, cfgFile, repo, config, current_profile, last_synced, clock, cmd,
                   profile, todo, cur, ticks, edits, mirror, snap, before, prevPass>>

\* sync, lines 285-286.
Stamp ==
    /\ pc = "stamp"
    /\ last_synced' = clock
    /\ result' = "completed"
    /\ err' = "none"
    /\ pc' = AfterPass
    /\ steps' = Append(steps, <<"stamp">>)
    /\ UNCHANGED <<runs, events, watched, fs, cfgFile, repo, config, current_profile, clock, cmd, profile,
                   todo, cur, ticks, edits, mirror, snap, before, prevPass>>

\* ---------------------------------------------------------------- schedule

\* schedule_sync, lines 480-497: the job is registered with the profile
\* resolved once, from the process's own Dotty.
ScheduleSync ==
    /\ pc = "schedule"
    /\ cmd' = [cmd EXCEPT !.profile = Some(ProfileOf(cmd.profile, current_profile))]
    /\ pc' = "sched"
    /\ UNCHANGED <<runs, events, watched, fs, cfgFile, repo, config, current_profile, last_synced, clock,
                   profile, todo, cur, result, err, ticks, edits, mirror, snap, before,
                   steps, prevPass>>

\* The job fires: Dotty::new().expect(..), then sync with the job's profile.
\* expect panics on an error of Dotty::new, on the thread that runs the loop.
Tick ==
    /\ pc = "sched"
    /\ ticks < MaxTicks
    /\ ticks' = ticks + 1
    /\ LET new == NewDotty(cfgFile)
       IN  /\ cfgFile' = new.file
           /\ IF new.ok
              THEN /\ config' = new.config
                   /\ current_profile' = detect_profile(new.config, HostSignals)
                   /\ last_synced' = clock
                   /\ pc' = "sync"
                   /\ UNCHANGED <<result, err>>
              ELSE /\ pc' = "idle"
                   /\ result' = "panicked"
                   /\ err' = "ConfigInvalid"
                   /\ UNCHANGED <<config, current_profile, last_synced>>
    /\ UNCHANGED <<runs, events, watched, fs, repo, clock, cmd, profile, todo, cur, edits, mirror, snap, before,
                   steps, prevPass>>

\* The schedule process is terminated from outside.
Kill ==
    /\ pc = "sched"
    /\ pc' = "idle"
    /\ result' = "killed"
    /\ err' = "none"
    /\ UNCHANGED <<runs, events, watched, fs, cfgFile, repo, config, current_profile, last_synced, clock, cmd,
                   profile, todo, cur, ticks, edits, mirror, snap, before, steps, prevPass>>

\* ------------------------------------------------------------------- watch

WatchCommands == [op : {"watch"}, profile : ProfileArgs]

\* watch_and_sync, lines 444-463: the profile is looked up, the watcher is
\* created and every canonical source of the profile is watched; watching a
\* path that does not exist is an error, which ends the process.
WatchSetup ==
    /\ pc = "watch"
    /\ LET prof == ProfileOf(cmd.profile, current_profile)
       IN  IF prof \notin DOMAIN config.profiles
           THEN /\ pc' = "idle"
                /\ result' = "aborted"
                /\ err' = "ProfileNotFound"
                /\ UNCHANGED <<watched, cmd>>
           ELSE LET files == config.profiles[prof].files
                IN  IF \E k \in DOMAIN files : ~ Exists(fs, files[k])
                    THEN /\ pc' = "idle"
                         /\ result' = "aborted"
                         /\ err' = "WatchSetupFailure"
                         /\ UNCHANGED <<watched, cmd>>
                    ELSE /\ pc' = "recv"
                         /\ watched' = {Target(fs, files[k]) : k \in DOMAIN files}
                         /\ cmd' = [cmd EXCEPT !.profile = Some(prof)]
                         /\ UNCHANGED <<result, err>>
    /\ UNCHANGED <<runs, events, fs, cfgFile, repo, config, current_profile, last_synced,
                   clock, profile, todo, cur, ticks, edits, mirror, snap, before, steps,
                   prevPass>>

\* watch_and_sync, lines 465-476: rx.recv() returns an event and the loop
\* calls sync with the profile of the watch.
Recv(e) ==
    /\ pc = "recv"
    /\ e \in events
    /\ clock < MaxPasses
    /\ events' = events \ {e}
    /\ pc' = "sync"
    /\ UNCHANGED <<runs, watched, fs, cfgFile, repo, config, current_profile, last_synced,
                   clock, cmd, profile, todo, cur, result, err, ticks, edits, mirror, snap,
                   before, steps, prevPass>>

\* -------------------------------------------------------------------- Next

SyncCommands == {c \in Commands : c.op = "sync"}

Next ==
    \/ \E c \in SyncCommands : Main(c)
    \/ SyncStart
    \/ ShowDiff
    \/ \E k \in Keys : PickFile(k)
    \/ \E io_fails \in BOOLEAN : BackupFile(io_fails)
    \/ \E failure \in {"none", "io", "perm"} : Deploy(failure)
    \/ /\ pc = "files"
       /\ \E failAt \in {"none", "open", "copy", "stage", "push"}, head \in BOOLEAN,
             S \in SUBSET Copyable, order \in ProfileOrders :
               Mirror(failAt, head, S, order)
    \/ Stamp

Spec == Init /\ [][Next]_vars

\* ------------------------------------------------- the whole command line

\* What the command line runs against: the first run (no configuration file)
\* or a hand-written configuration that tracks a.t or nothing, the files of
\* the home directory and the canonical sources present, and the working
\* copy of the mirror there with a commit or not there at all.
InitCli ==
    /\ fs = [p \in Paths |->
              IF \E k \in Keys : p = ExtSrc(k)
                  THEN Original(CHOOSE k \in Keys : p = ExtSrc(k))
              ELSE IF \E k \in Keys : p = Dest(k) THEN File("v0")
              ELSE Absent]
    /\ cfgFile \in {NoFile, HandConfig({}, FALSE, FALSE), HandConfig({KeyT}, FALSE, FALSE)}
    /\ \E there \in BOOLEAN :
          repo = [exists |-> there, hasHead |-> there, ahead |-> FALSE]
    /\ NotStarted

NextCli ==
    \/ \E c \in Commands : Main(c)
    \/ AddFile
    \/ RemoveFile
    \/ ScheduleSync
    \/ Tick
    \/ Kill
    \/ \E p \in HomePaths : UserEdit(p, Absent)
    \/ SyncStart
    \/ ShowDiff
    \/ \E k \in Keys : PickFile(k)
    \/ \E io_fails \in BOOLEAN : BackupFile(io_fails)
    \/ \E failure \in {"none", "io", "perm"} : Deploy(failure)
    \/ /\ pc = "files"
       /\ \E failAt \in {"none", "open", "copy", "stage", "push"}, head \in BOOLEAN,
             S \in SUBSET Copyable, order \in ProfileOrders :
               Mirror(failAt, head, S, order)
    \/ Stamp

SpecCli == InitCli /\ [][NextCli]_vars

\* ------------------------------------------------------------ two profiles

\* A hand-written configuration with two profiles: "default" tracks the files
\* of F from the dotfiles directory, "work" tracks a.t from the source src.
WorkConfig(F, src) ==
    [HandConfig(F, FALSE, TRUE) EXCEPT
        !.profiles["work"].files = [k \in {KeyT} |-> src]]

\* What a sync of one of two profiles runs against: "work" takes a.t from
\* the same source as "default" or from another file; the destinations are
\* there or not, and so is the working copy of the mirror.
InitMirror ==
    /\ \E present \in {{}, Keys} :
          fs = [p \in Paths |->
                  IF \E k \in Keys : p = ExtSrc(k)
                      THEN Original(CHOOSE k \in Keys : p = ExtSrc(k))
                  ELSE IF \E k \in present : p = Dest(k) THEN File("v0")
                  ELSE Absent]
    /\ cfgFile \in {WorkConfig(F, src) : F \in {{}, {KeyT}, {KeyG}, {KeyT, KeyG}},
                                          src \in {ExtSrc(KeyT), ExtSrc(KeyB)}}
    /\ \E there \in BOOLEAN :
          repo = [exists |-> there, hasHead |-> there, ahead |-> FALSE]
    /\ NotStarted

SpecMirror == InitMirror /\ [][Next]_vars

\* ---------------------------------------------------------- ignore patterns

\* Ignore patterns a user may configure: the default ".git", part of a file
\* name, a piece of path that runs across a separator, and one that occurs
\* in no tracked path.
SlashPattern == <<"s", "/", "a">>
NamePattern == <<"a", ".">>
OtherPattern == <<"z">>
PatternPool == {GitPattern, SlashPattern, NamePattern, OtherPattern}

\* A hand-written configuration whose default profile tracks the files of F
\* and ignores the patterns of pats.
PatternConfig(F, pats) ==
    [HandConfig(F, FALSE, FALSE) EXCEPT !.profiles["default"].ignore_patterns = pats]

InitFilter ==
    /\ \E present \in {{}, Keys} :
          fs = [p \in Paths |->
                  IF \E k \in Keys : p = ExtSrc(k)
                      THEN Original(CHOOSE k \in Keys : p = ExtSrc(k))
                  ELSE IF \E k \in present : p = Dest(k) THEN File("v0")
                  ELSE Absent]
    /\ cfgFile \in {PatternConfig(F, pats) :
                        F \in {G \in SUBSET Keys : Cardinality(G) \in 1..MaxFiles},
                        pats \in SUBSET PatternPool}
    /\ \E there \in BOOLEAN :
          repo = [exists |-> there, hasHead |-> there, ahead |-> FALSE]
    /\ NotStarted

SpecFilter == InitFilter /\ [][Next]_vars

\* -------------------------------------------------------- profile detection

\* DetectionCondition values: one that holds on this host and one that does
\* not, by host name and by environment variable (set to another value, or
\* not set at all).
Hostname(v) == [kind |-> "Hostname", name |-> "", value |-> v]
OS(v) == [kind |-> "OS", name |-> "", value |-> v]
EnvVar(n, v) == [kind |-> "EnvVar", name |-> n, value |-> v]
Conditions == {Hostname("box"), OS("macos"), EnvVar("DOTTY", "1"), EnvVar("UNSET", "1")}

\* Sequences over S of length n at most, and those without a repetition.
SeqUpTo(S, n) == UNION {[1..m -> S] : m \in 0..n}
DistinctSeqUpTo(S, n) ==
    {q \in SeqUpTo(S, n) : \A i, j \in DOMAIN q : i # j => q[i] # q[j]}

\* The profile the rule at position i names.
RuleProfile(i) == IF i = 1 THEN "work" ELSE IF i = 2 THEN "home" ELSE "alt"

\* Rule lists: each rule has some of the conditions, in some order, and names
\* the profile of its position.
RuleLists ==
    {[i \in DOMAIN cs |-> [profile |-> RuleProfile(i), conditions |-> cs[i]]] :
        cs \in SeqUpTo(DistinctSeqUpTo(Conditions, MaxConds), MaxRules)}

\* A hand-written configuration with profiles "default" and "work" and a
\* profile detection, or none.
DetectConfigs ==
    {[HandConfig({KeyT}, FALSE, TRUE) EXCEPT !.profile_detection = d] :
        d \in {NoDetection} \cup {[some |-> TRUE, rules |-> r] : r \in RuleLists}}

InitDetect ==
    /\ fs = [p \in Paths |->
              IF \E k \in Keys : p = ExtSrc(k)
                  THEN Original(CHOOSE k \in Keys : p = ExtSrc(k))
              ELSE Absent]
    /\ cfgFile \in DetectConfigs
    /\ repo = [exists |-> FALSE, hasHead |-> FALSE, ahead |-> FALSE]
    /\ NotStarted

\* Dotty::new detects the profile, and a sync without --profile uses it.
NextDetect ==
    \/ Main([op |-> "sync", profile |-> None])
    \/ SyncStart

SpecDetect == InitDetect /\ [][NextDetect]_vars

\* ---------------------------------------------------------------- watching

\* The configuration `dotty add` leaves for the files of F: each key is the
\* path relative to the home directory and its canonical source is the file
\* of the home directory itself (add_file, lines 211-218).
AddedConfig(F) ==
    [HandConfig({}, FALSE, FALSE) EXCEPT
        !.profiles["default"].files = [k \in F |-> Dest(k)]]

\* What a watch runs against: a profile that tracks a.t (and .gitc) from the
\* dotfiles directory, by copy or by link, or a.t as `dotty add` registered
\* it; every file there, the working copy of the mirror there or not.
InitWatch ==
    /\ fs = [p \in Paths |->
              IF \E k \in Keys : p = ExtSrc(k)
                  THEN Original(CHOOSE k \in Keys : p = ExtSrc(k))
              ELSE IF \E k \in Keys : p = Dest(k) THEN File("v0")
              ELSE Absent]
    /\ cfgFile \in {HandConfig({KeyT}, FALSE, FALSE), HandConfig({KeyT}, TRUE, FALSE),
                     HandConfig({KeyT, KeyG}, FALSE, FALSE), AddedConfig({KeyT})}
    /\ \E there \in BOOLEAN :
          repo = [exists |-> there, hasHead |-> there, ahead |-> FALSE]
    /\ NotStarted

\* The steps of the watch process.
WatchProcess ==
    \/ WatchSetup
    \/ \E e \in Paths : Recv(e)
    \/ SyncStart
    \/ ShowDiff
    \/ \E k \in Keys : PickFile(k)
    \/ \E io_fails \in BOOLEAN : BackupFile(io_fails)
    \/ \E failure \in {"none", "io", "perm"} : Deploy(failure)
    \/ /\ pc = "files"
       /\ \E failAt \in {"none", "open", "copy", "stage", "push"}, head \in BOOLEAN,
             S \in SUBSET Copyable, order \in ProfileOrders :
               Mirror(failAt, head, S, order)
    \/ Stamp

NextWatch ==
    \/ \E c \in WatchCommands : Main(c)
    \/ \E p \in {ExtSrc(KeyT), Dest(KeyT)}, node \in {Absent, File("v2")} : UserEdit(p, node)
    \/ WatchProcess

\* The thread of the watch loop runs whenever it can: recv returns as soon as
\* an event is in the channel.
SpecWatch == InitWatch /\ [][NextWatch]_vars /\ WF_vars(WatchProcess)

\* -------------------------------------------------------------- properties

\* The pass has taken this step.
Did(step) == \E i \in DOMAIN steps : steps[i] = step
\* Where in the pass it took it.
At(step) == CHOOSE i \in DOMAIN steps : steps[i] = step
\* The pass runs on a profile the configuration holds.
InPass == snap.taken /\ profile \in DOMAIN config.profiles

(* C1: when the loop of a sync pass is about to deploy onto a destination   *)
(* that existed, the backup path holds the content the destination had when *)
(* the loop reached the file; when the destination did not exist, the       *)
(* backup step has changed nothing.                                         *)
C1_BackupBeforeOverwrite ==
    pc = "deploy" =>
        LET d == Dest(cur)
            b == BackupPath(d)
        IN  IF Exists(before.fs, d)
            THEN Exists(fs, b) /\ Content(fs, b) = Content(before.fs, d)
            ELSE fs = before.fs

(* C2: a pass runs diff, then the tracked files (backup before deploy for   *)
(* each), then the mirror, then the stamp: nothing is written until the     *)
(* diff has finished, the mirror starts only when every tracked file has    *)
(* been skipped or deployed, and last_synced changes only after the mirror  *)
(* has returned successfully.                                               *)
C2_PassOrder ==
    snap.taken =>
        /\ ~ Did(<<"diff">>) => fs = snap.fs /\ Len(steps) = 0
        /\ Did(<<"diff">>) => steps[1] = <<"diff">>
        /\ \A k \in Keys :
              Did(<<"deploy", k>>) /\ Did(<<"backup", k>>) =>
                  /\ At(<<"backup", k>>) < At(<<"deploy", k>>)
                  /\ At(<<"diff">>) < At(<<"backup", k>>)
        /\ (mirror # NoMirror \/ Did(<<"mirror">>)) =>
              /\ Did(<<"mirror">>)
              /\ todo = {}
              /\ \A k \in DOMAIN Files :
                    \E i \in 1..(At(<<"mirror">>) - 1) :
                        steps[i] \in {<<"skip", k>>, <<"deploy", k>>}
        /\ (last_synced # snap.last_synced \/ Did(<<"stamp">>)) =>
              /\ mirror = "done"
              /\ Did(<<"stamp">>)
              /\ At(<<"mirror">>) < At(<<"stamp">>)

\* A completed pass over two tracked files, one of them backed up.
C2_Witness ==
    /\ InPass
    /\ result = "completed"
    /\ Cardinality(DOMAIN Files) = 2
    /\ \E k \in Keys : Did(<<"backup", k>>) /\ Did(<<"deploy", k>>)

(* C3: when a copy-mode pass follows a copy-mode pass of the same profile   *)
(* with nothing changed in between, then once its loop has visited every    *)
(* file, each deployed destination holds its source's content, which is     *)
(* what it held before this pass, and its backup holds that content too.    *)
C3_SecondPassIdempotent ==
    (InPass /\ snap.second /\ pc = "files" /\ todo = {}) =>
        \A k \in DOMAIN Files :
            Eligible(k) =>
                /\ NodeAt(fs, Dest(k)) = NodeAt(fs, Source(k))
                /\ NodeAt(fs, Dest(k)) = NodeAt(snap.fs, Dest(k))
                /\ NodeAt(fs, BackupPath(Dest(k))) = NodeAt(snap.fs, Dest(k))

(* C4: a pass over a tracked file whose source and destination both exist   *)
(* and one of which is not UTF-8 gets past the diff report.                 *)
C4_BinaryDiffSkipped ==
    (InPass /\ pc # "diff"
        /\ \E k \in DOMAIN Files :
              /\ Exists(snap.fs, Source(k)) /\ Exists(snap.fs, Dest(k))
              /\ ~ (Readable(snap.fs, Source(k)) /\ Readable(snap.fs, Dest(k))))
    => Did(<<"diff">>)

(* C5: in symlink mode no deploy is refused because of what is at the       *)
(* destination, and a deploy leaves at the destination a link to the source.*)
C5_SymlinkReplaces ==
    /\ err # "AlreadyExists"
    /\ \A k \in Keys :
          (InPass /\ UsesSymlinks /\ Len(steps) > 0
              /\ steps[Len(steps)] = <<"deploy", k>>)
          => fs[Dest(k)] = Link(Source(k))

(* C6: a sync invocation that has returned either completed, with           *)
(* last_synced updated after a successful mirror, or aborted with an error  *)
(* and last_synced as it was; a profile the configuration does not hold     *)
(* aborts it with ProfileNotFound before any step has run.                  *)
C6_TerminalOutcomes ==
    (snap.taken /\ pc \in {"idle", "sched"} /\ result # "killed") =>
        /\ result \in {"completed", "aborted"}
        /\ result = "completed" =>
              /\ err = "none"
              /\ mirror = "done"
              /\ last_synced = clock
              /\ last_synced # snap.last_synced
        /\ result = "aborted" =>
              /\ err # "none"
              /\ last_synced = snap.last_synced
              /\ ~ Did(<<"stamp">>)
        /\ (profile \notin DOMAIN config.profiles) <=> (err = "ProfileNotFound")
        /\ err = "ProfileNotFound" =>
              /\ result = "aborted"
              /\ Len(steps) = 0
              /\ fs = snap.fs
              /\ mirror = NoMirror

\* A pass that deployed a file and was then aborted by the mirror.
C6_Witness ==
    /\ snap.taken
    /\ pc = "idle"
    /\ result = "aborted"
    /\ err = "RemoteFailure"
    /\ \E k \in Keys : Did(<<"deploy", k>>)

(* C7: no backup or deploy step is taken for a tracked file whose source is *)
(* missing, and the step of the loop that passes such a file writes         *)
(* nothing, raises no error and leaves the loop running on the other files. *)
C7_MissingSourceSkipped ==
    /\ [](pc \in {"backup", "deploy"} => Exists(fs, Source(cur)))
    /\ [][\A k \in Keys :
            (pc = "files" /\ k \in todo /\ k \notin todo' /\ ~ Exists(fs, Source(k)))
            => /\ fs' = fs
               /\ result' = result
               /\ err' = err
               /\ pc' = "files"
               /\ todo' = todo \ {k}]_vars

\* A completed pass that skipped a file with a missing source and deployed
\* another.
C7_Witness ==
    /\ InPass
    /\ result = "completed"
    /\ mirror = "done"
    /\ \E k \in DOMAIN Files :
          /\ ~ Exists(fs, Source(k))
          /\ Did(<<"skip", k>>)
          /\ \E j \in DOMAIN Files : j # k /\ Did(<<"deploy", j>>)

\* The profile a remove acts on, and the key it looks up: the canonical path
\* relative to the home directory when the path resolves, or else the path
\* as it was given.
RemoveProfile == ProfileOf(cmd.profile, current_profile)
RemoveKey ==
    IF Exists(fs, cmd.path) /\ UnderHome(Canonical(fs, cmd.path))
    THEN StripHome(Canonical(fs, cmd.path))
    ELSE StripHome(cmd.path)

(* C8, as stated: a remove on a profile of the configuration takes the      *)
(* path's key out of the mapping when it is there, and when it is not there *)
(* (whether or not the file still exists on disk) it leaves the mapping and *)
(* the configuration file unchanged and returns success with the 'not       *)
(* found' report.                                                           *)
C8_RemoveAbsentIsNotFound ==
    [][(pc = "remove" /\ RemoveProfile \in DOMAIN config.profiles)
        => IF RemoveKey \in DOMAIN config.profiles[RemoveProfile].files
           THEN RemoveKey \notin DOMAIN config'.profiles[RemoveProfile].files
           ELSE /\ config' = config
                /\ cfgFile' = cfgFile
                /\ result' = "ok_not_found"
                /\ err' = "none"]_vars

(* C8, amended: a remove of a path that resolves to a file under the home   *)
(* directory takes its key out of the mapping and saves the configuration   *)
(* when the key is there, and when it is not there leaves the mapping and   *)
(* the configuration file unchanged and returns success with the 'not       *)
(* found' report; a remove of a path whose file no longer exists returns    *)
(* the error PathUnresolvable and leaves the mapping and the configuration  *)
(* file unchanged, whether the key is in the mapping or not.                *)
C8_RemoveRoundTrip ==
    [][(pc = "remove" /\ RemoveProfile \in DOMAIN config.profiles)
        => IF ~ Exists(fs, cmd.path)
           THEN /\ config' = config
                /\ cfgFile' = cfgFile
                /\ result' = "aborted"
                /\ err' = "PathUnresolvable"
           ELSE IF ~ UnderHome(Canonical(fs, cmd.path)) THEN TRUE
           ELSE IF RemoveKey \in DOMAIN config.profiles[RemoveProfile].files
           THEN /\ RemoveKey \notin DOMAIN config'.profiles[RemoveProfile].files
                /\ cfgFile' = config'
                /\ result' = "ok"
           ELSE /\ config' = config
                /\ cfgFile' = cfgFile
                /\ result' = "ok_not_found"
                /\ err' = "none"]_vars

\* A path was added to a default profile that tracked nothing and the same
\* path was then removed: the mapping is empty again, in the process and on
\* disk.
C8_Witness ==
    /\ cmd.op = "remove"
    /\ pc = "idle"
    /\ result = "ok"
    /\ runs = 2
    /\ cfgFile = HandConfig({}, FALSE, FALSE)
    /\ config = cfgFile
    /\ Exists(fs, cmd.path)

(* C9: whenever a pass has entered the remote mirror (open or clone, and    *)
(* what follows), and whenever the schedule loop is running, the remote     *)
(* repository address and the token of the configuration in use are both    *)
(* non-empty; the first run, which creates the configuration, included.     *)
C9_NoRemoteOpWithEmptyRemote ==
    (mirror # NoMirror \/ pc = "sched")
        => /\ config.remote.github_repo # ""
           /\ config.remote.github_token # ""

(* C10: a tick of the schedule loop never ends the loop: the job of a tick  *)
(* goes on to a sync pass, and once the loop has ticked the process ends    *)
(* only by being terminated from outside.                                   *)
C10_TickErrorNotFatal ==
    /\ [][(pc = "sched" /\ ticks' = ticks + 1) => pc' = "sync"]_vars
    /\ []((cmd.op = "schedule" /\ ticks > 0 /\ pc = "idle") => result = "killed")

(* C11: in watch mode every event the loop receives starts one sync pass    *)
(* for the profile of the watch and takes that one event from the channel;  *)
(* once the watcher is set up no pass, failed or not, ends the process; and *)
(* an event that waits in the channel while the loop waits is received and  *)
(* starts a pass.                                                           *)
C11_WatchKeepsRunning ==
    /\ [][(pc = "recv" /\ pc' # "recv")
            => /\ pc' = "sync"
               /\ events' \subseteq events
               /\ Cardinality(events') = Cardinality(events) - 1]_vars
    /\ [][(pc = "sync" /\ cmd.op = "watch")
            => /\ profile' = cmd.profile.v
               /\ clock' = clock + 1
               /\ pc' = "diff"]_vars
    /\ []((cmd.op = "watch" /\ watched # {}) => pc # "idle")
    /\ (pc = "recv" /\ events # {} /\ clock < MaxPasses) ~> (pc = "sync")

\* A pass of the watch loop failed, and the next event started a new pass.
C11_Witness ==
    /\ cmd.op = "watch"
    /\ pc = "diff"
    /\ snap.taken
    /\ snap.prior = "aborted"
    /\ clock = 2

\* The tracked files of all profiles, as (profile, key) pairs.
AllTracked ==
    {nk \in (DOMAIN config.profiles) \X Keys : nk[2] \in DOMAIN config.profiles[nk[1]].files}

(* C12: when the remote mirror of a pass has succeeded, the working copy    *)
(* holds, for every tracked file of every profile whose canonical source    *)
(* exists, a file at the home-relative path whose content is that of the    *)
(* canonical source.                                                        *)
C12_MirrorHoldsAllProfiles ==
    (InPass /\ mirror = "done" /\ pc = "stamp") =>
        \A nk \in AllTracked :
            LET source == config.profiles[nk[1]].files[nk[2]]
            IN  Exists(fs, source) =>
                    /\ Exists(fs, RepoDest(nk[2]))
                    /\ Content(fs, RepoDest(nk[2])) = Content(fs, source)

\* The paths of the working copy of the mirror.
RepoPaths == {RepoDest(k) : k \in Keys}

(* C13: a remote mirror that stops at a step before the end aborts the pass *)
(* with an error and leaves last_synced as it was; nothing outside the      *)
(* working copy changes, so deployed destinations stay deployed; the files  *)
(* copied into the working copy stay there (all of them once the copy loop  *)
(* is over), the working copy that was cloned or opened stays, and the      *)
(* commit written before a refused push stays.  A working copy whose branch *)
(* has no commit never gets past the commit step.                           *)
C13_MirrorFailureKeepsWork ==
    /\ [][(pc = "files" /\ mirror' # mirror /\ mirror' # "done")
            => /\ pc' = AfterPass
               /\ result' = "aborted"
               /\ err' \in {"RemoteFailure", "IOFailure"}
               /\ last_synced' = last_synced
               /\ \A p \in Paths \ RepoPaths : fs'[p] = fs[p]
               /\ \A p \in RepoPaths : fs[p] # Absent => fs'[p] # Absent
               /\ mirror' \in {"open", "clone"} => (fs' = fs /\ repo' = repo)
               /\ mirror' \in {"copy", "stage", "commit", "push"} => repo'.exists
               /\ mirror' \in {"stage", "commit", "push"} =>
                     \A k \in Copyable :
                        \E source \in MirrorSources(k) :
                            fs'[RepoDest(k)] = File(Content(fs, source))
               /\ mirror' = "push" => (repo'.ahead /\ repo'.hasHead)]_vars
    /\ [](mirror \in {"commit", "push", "done"} => (mirror = "commit" <=> ~ repo.hasHead))
    /\ []((InPass /\ result = "aborted" /\ mirror # NoMirror) =>
             /\ last_synced = snap.last_synced
             /\ ~ Did(<<"stamp">>)
             /\ \A k \in DOMAIN Files :
                   (Did(<<"deploy", k>>) /\ ~ UsesSymlinks /\ Exists(fs, Source(k)))
                       => Exists(fs, Dest(k)))

\* A pass deployed a file, copied it to the working copy and committed, and
\* the push was refused.
C13_Witness ==
    /\ InPass
    /\ result = "aborted"
    /\ err = "RemoteFailure"
    /\ mirror = "push"
    /\ repo.ahead
    /\ last_synced = snap.last_synced
    /\ \E k \in DOMAIN Files :
          /\ Did(<<"deploy", k>>)
          /\ fs[Dest(k)] = File(Content(fs, Source(k)))
          /\ fs[RepoDest(k)] # Absent

\* The condition holds on this host: the configured string equals the host
\* name, the OS id, or the value of the named variable, which must be set.
Holds(cond) ==
    \/ cond.kind = "Hostname" /\ cond.value = HostSignals.hostname
    \/ cond.kind = "OS" /\ cond.value = HostSignals.os
    \/ /\ cond.kind = "EnvVar"
       /\ \E n \in DOMAIN HostSignals.env : n = cond.name /\ HostSignals.env[n] = cond.value

\* Rule i of the detection matches: all its conditions hold.
Matches(rules, i) == \A j \in DOMAIN rules[i].conditions : Holds(rules[i].conditions[j])

(* C14: the profile detected by every Dotty::new of every invocation is the *)
(* profile of the first rule, in configured order, all of whose conditions  *)
(* hold, whatever the later rules are; it is "default" when no rule matches *)
(* or when the configuration has no profile detection; and a sync without   *)
(* a profile argument runs on the detected profile.                         *)
C14_FirstMatchingRuleWins ==
    (config # NoFile /\ cmd.op = "sync") =>
        /\ IF config.profile_detection.some
           THEN LET rules == config.profile_detection.rules
                IN  IF \E i \in DOMAIN rules : Matches(rules, i)
                    THEN \E i \in DOMAIN rules :
                            /\ Matches(rules, i)
                            /\ \A j \in 1..(i - 1) : ~ Matches(rules, j)
                            /\ current_profile = rules[i].profile
                    ELSE current_profile = "default"
           ELSE current_profile = "default"
        /\ snap.taken => profile = current_profile

\* The first rule has a condition that holds and one that does not, the
\* second rule has only the one that holds: the second rule's profile is
\* detected, a second time in a second invocation.
C14_Witness ==
    /\ config # NoFile
    /\ config.profile_detection.some
    /\ Len(config.profile_detection.rules) = 2
    /\ config.profile_detection.rules[1].conditions = <<Hostname("box"), EnvVar("UNSET", "1")>>
    /\ config.profile_detection.rules[2].conditions = <<Hostname("box")>>
    /\ current_profile = "home"
    /\ runs = 2
    /\ snap.taken

\* The components of a path: what stands between two separators, or between
\* a separator and an end of the path.
Components(p) ==
    LET cuts == {0, Len(p) + 1} \cup {i \in 1..Len(p) : p[i] = "/"}
    IN  {SubSeq(p, ij[1] + 1, ij[2] - 1) :
            ij \in {c \in cuts \X cuts :
                      c[1] < c[2] /\ ~ \E m \in cuts : c[1] < m /\ m < c[2]}}

\* Some component of the path, the file name or the name of a directory
\* above it, contains some ignore pattern of the profile.
ComponentIgnored(path, patterns) ==
    \E comp \in Components(path), pat \in patterns : Contains(comp, pat)

(* C15: in a pass, a tracked file whose source exists is passed over as     *)
(* ignored if and only if some component of its source path contains some   *)
(* ignore pattern of the profile as a substring; every other such file is   *)
(* eligible and goes on to backup and deploy.                               *)
C15_IgnoredIffComponentMatches ==
    InPass =>
        \A k \in DOMAIN Files :
            LET ignored == ComponentIgnored(Source(k), config.profiles[profile].ignore_patterns)
            IN  /\ (Did(<<"skip", k>>) /\ Exists(snap.fs, Source(k))) => ignored
                /\ (Did(<<"deploy", k>>) \/ (pc \in {"backup", "deploy"} /\ cur = k))
                      => ~ ignored

\* The pass has backed up or deployed the tracked file k.
Touched(k) == Did(<<"backup", k>>) \/ Did(<<"deploy", k>>)

(* C16: a backup, copy, symlink or permission step that fails ends the      *)
(* pass: the step returns the error and leaves the destinations deployed    *)
(* before it as they are; the pass stays aborted with the files after the   *)
(* failing one neither backed up nor deployed, the remote mirror not run    *)
(* and last_synced as it was when the pass began.                           *)
C16_IoFailureAbortsRest ==
    /\ [][(pc \in {"backup", "deploy"} /\ err' # "none")
            => /\ pc' = AfterPass
               /\ result' = "aborted"
               /\ todo' = todo
               /\ steps' = steps
               /\ last_synced' = last_synced
               /\ \A k \in DOMAIN Files :
                     Did(<<"deploy", k>>) => fs'[Dest(k)] = fs[Dest(k)]]_vars
    /\ []((InPass /\ result = "aborted" /\ cur # NoKey /\ cur \in todo) =>
             /\ pc = AfterPass
             /\ err \in {"IOFailure", "AlreadyExists"}
             /\ mirror = NoMirror
             /\ ~ Did(<<"mirror">>)
             /\ ~ Did(<<"stamp">>)
             /\ last_synced = snap.last_synced
             /\ \A k \in todo \ {cur} : ~ Touched(k)
             /\ ~ Did(<<"deploy", cur>>))

\* A pass deployed one tracked file and failed on the next one.
C16_Witness ==
    /\ InPass
    /\ result = "aborted"
    /\ err = "IOFailure"
    /\ cur \in todo
    /\ mirror = NoMirror
    /\ last_synced = snap.last_synced
    /\ \E k \in DOMAIN Files :
          /\ k # cur
          /\ Did(<<"deploy", k>>)
          /\ fs[Dest(k)] = File(Content(fs, Source(k)))
          /\ fs[Dest(k)] # snap.fs[Dest(k)]

\* A sync pass is under way.
Syncing == pc \in {"diff", "files", "backup", "deploy", "stamp"}

(* C17: in a pass every tracked file, a file registered by add included,    *)
(* has a destination that is another path than its canonical source, and no *)
(* step of the pass changes what a canonical source of the profile holds.   *)
C17_SourceNeverChanges ==
    /\ []((Syncing /\ InPass) => \A k \in DOMAIN Files : Dest(k) # Source(k))
    /\ [][(Syncing /\ InPass)
            => \A k \in DOMAIN Files :
                  NodeAt(fs', Source(k)) = NodeAt(fs, Source(k))]_vars

(* C18: no step of a pass of the watch loop writes to a watched path, so no *)
(* step of a pass puts an event in the channel; and the watch process ends  *)
(* up waiting on an empty channel, whatever the user changed before.        *)
C18_NoSelfTrigger ==
    /\ [][(Syncing /\ cmd.op = "watch") => events' \subseteq events]_vars
    /\ <>[](pc \in {"idle", "recv"} /\ events = {})

(* C19: in a pass the backup path of a tracked file's destination is not    *)
(* that destination, and is neither the destination nor the backup path of  *)
(* another tracked file of the profile; and the backup step of a file       *)
(* leaves its own destination and the destinations of the other tracked     *)
(* files as they were.                                                      *)
C19_BackupPathsDistinct ==
    /\ []((Syncing /\ InPass) =>
             \A k \in DOMAIN Files :
                /\ BackupPath(Dest(k)) # Dest(k)
                /\ \A j \in DOMAIN Files \ {k} :
                      /\ BackupPath(Dest(k)) # Dest(j)
                      /\ BackupPath(Dest(k)) # BackupPath(Dest(j)))
    /\ [][(pc = "backup" /\ InPass)
            => \A j \in DOMAIN Files : fs'[Dest(j)] = fs[Dest(j)]]_vars

(* C20: every configuration file the program writes (the default one of a   *)
(* first run, the one add and remove save) passes Config::validate, so no   *)
(* invocation that loads a file the program wrote stops at validation.      *)
C20_WrittenConfigIsValid ==
    /\ [][cfgFile' # cfgFile => Validate(cfgFile')]_vars
    /\ [](err # "ConfigInvalid")

====
